---- MODULE Spec2Model ----
(***************************************************************************)
(* GeventWorker of tgext.rq (src/tgext/rq/rq_gevent_worker.py): the        *)
(* dispatch loop _work, the gateway dequeue_job_and_maintain_ttl, the      *)
(* bounded greenlet pool, the completion hook job_done and the two signal  *)
(* handlers request_stop / request_force_stop.                             *)
(*                                                                         *)
(* gevent is cooperative: a greenlet runs until it waits (redis I/O,       *)
(* gevent.sleep, Pool.join, Greenlet.kill, hub.switch).  Every action      *)
(* below is the code one greenlet runs from one such wait to the next.     *)
(* The value of pc names the call the loop greenlet is waiting in.         *)
(***************************************************************************)
EXTENDS Integers, Sequences, FiniteSets, TLC

\* Number of jobs that may ever be enqueued.
MaxJobs == 2
\* Largest pool_size a worker is constructed with.
MaxPool == 2

Jobs == 1..MaxJobs

\* Worker TTLs a worker is constructed with: the boundary of line 138, where
\* TTL - 60 is 0 and the floor of 1 applies.
TTLs == {60}

\* Largest worker TTL of the specification that ranges over the TTL.
MaxTTL == 62

\* Worker TTLs from 0 up: below, at and above the margin of 60 of line 138.
TTLRange == 0..MaxTTL

\* rq.job.JobStatus values that job.get_status() can read in job_done.
JobStatus == {"finished", "failed", "started"}

VARIABLES
    burst,                    \* work(burst=...)
    pool_size,                \* gevent_pool.size
    default_worker_ttl,       \* self.default_worker_ttl
    main,                     \* the caller of work(): new, working, returned, raised
    retval,                   \* what work() returned: unset, None, True, False
    exit_exc,                 \* the exception work() ended with
    gevent_worker,            \* self.gevent_worker: None, alive, dead
    pc,                       \* where the greenlet running _work waits
    retry,                    \* inside the second gateway call of line 149
    result,                   \* the local `result` of the gateway / _work (0 is None)
    wexc,                     \* exception propagating through _work's finally
    _stop_requested,          \* self._stop_requested
    did_perform_work,         \* self.did_perform_work
    handlers,                 \* what a termination signal runs
    stopper,                  \* the greenlet running request_stop
    forcer,                   \* the greenlet running request_force_stop
    queue,                    \* the ready queue dequeue_any pops from
    jobs,                     \* stage of every job
    status,                   \* job.get_status() of every job
    cancelled,                \* executions ended by gevent_pool.kill()
    job_done_calls,           \* invocations of job_done per job
    enqueue_dependents_calls, \* queue.enqueue_dependents(job) calls per job
    birth_done,               \* register_birth has returned
    death_called,             \* register_death has been called
    death_pool_len,           \* len(gevent_pool) when register_death was called
    admitted_after_stop,      \* execute_job calls made with _stop_requested set
    hb,                       \* heartbeat() calls of the current gateway iteration
    dequeue_timeout,          \* the local `timeout` of _work (-1 is None)
    timed_out,                \* the current gateway call has caught DequeueTimeout
    dequeue_interrupted,      \* StopRequested was thrown into a pending dequeue_any
    job_done_heartbeats       \* heartbeat() calls made by job_done per job

conf == <<burst, pool_size, default_worker_ttl>>
endVars == <<main, retval, exit_exc, gevent_worker>>
loopVars == <<pc, retry, result, wexc, hb, timed_out>>
shutdownVars == <<_stop_requested, handlers, stopper, forcer>>
jobVars == <<queue, jobs, status, cancelled, job_done_calls, enqueue_dependents_calls,
            job_done_heartbeats>>
liveVars == <<birth_done, death_called, death_pool_len>>

vars == <<conf, endVars, loopVars, shutdownVars, jobVars, liveVars,
          did_perform_work, admitted_after_stop, dequeue_timeout,
          dequeue_interrupted>>

\* The greenlets gevent_pool holds: spawned by execute_job, not yet discarded.
gevent_pool == {j \in Jobs : jobs[j] \in {"running", "dying"}}

\* len(self.gevent_pool)
pool_len == Cardinality(gevent_pool)

\* A full() that is wrong by one: reports a pool at capacity as having room.
full_off_by_one == pool_len > pool_size

\* self.gevent_pool.full(): no free slot.
full == pool_len >= pool_size

\* Worker.is_horse: execute_job never forks, the worker is never a horse.
is_horse == FALSE

PyBool(b) == IF b THEN "True" ELSE "False"

Alive == main \in {"new", "working"}

\* The state after GeventWorker(...) was constructed (lines 40-50) with a
\* worker TTL out of ttls, before work() is called.
InitWith(ttls) ==
    /\ burst \in BOOLEAN
    /\ pool_size \in 1..MaxPool
    /\ default_worker_ttl \in ttls
    /\ main = "new"
    /\ retval = "unset"
    /\ exit_exc = "none"
    /\ gevent_worker = "None"
    /\ pc = "new"
    /\ retry = FALSE
    /\ result = 0
    /\ wexc = "none"
    /\ _stop_requested = FALSE
    /\ did_perform_work = FALSE
    /\ handlers = "none"
    /\ stopper = "none"
    /\ forcer = "none"
    /\ queue = <<>>
    /\ jobs = [j \in Jobs |-> "future"]
    /\ status = [j \in Jobs |-> "queued"]
    /\ cancelled = {}
    /\ job_done_calls = [j \in Jobs |-> 0]
    /\ enqueue_dependents_calls = [j \in Jobs |-> 0]
    /\ birth_done = FALSE
    /\ death_called = FALSE
    /\ death_pool_len = -1
    /\ admitted_after_stop = 0
    /\ hb = "none"
    /\ timed_out = FALSE
    /\ job_done_heartbeats = [j \in Jobs |-> 0]
    /\ dequeue_timeout = -1
    /\ dequeue_interrupted = FALSE

Init == InitWith(TTLs)

\* A max() that lets its second argument through unfloored.
Max_unfloored(a, b) == b

\* max(a, b) of line 138.
Max(a, b) == IF a >= b THEN a ELSE b

\* The timeout with the two modes swapped.
timeout_swapped == IF ~burst THEN -1 ELSE Max(1, default_worker_ttl - 60)

\* Line 138: the timeout _work hands to the gateway; -1 stands for None.
timeout == IF burst THEN -1 ELSE Max(1, default_worker_ttl - 60)

\* The greenlet running _work ends: with wexc = "none" it returns val.  In
\* burst mode that greenlet is the caller of work() (line 177); otherwise
\* work() is joined on gevent_worker and returns its value, which is None
\* when the greenlet died of an exception (lines 179-181).
EndWork(val, exc) ==
    /\ pc' = "done"
    /\ wexc' = exc
    /\ retry' = FALSE
    /\ result' = 0
    /\ hb' = "none"
    /\ timed_out' = FALSE
    /\ IF burst
       THEN /\ main' = IF exc = "none" THEN "returned" ELSE "raised"
            /\ retval' = IF exc = "none" THEN val ELSE "unset"
            /\ exit_exc' = exc
            /\ gevent_worker' = gevent_worker
       ELSE /\ main' = "returned"
            /\ retval' = IF exc = "none" THEN val ELSE "None"
            /\ exit_exc' = "none"
            /\ gevent_worker' = "dead"

\* Lines 159-164: the loop is left (break or exception exc); the finally
\* block calls register_death, which waits on redis.
Finally(exc) ==
    /\ pc' = "register_death"
    /\ wexc' = exc
    /\ retry' = FALSE
    /\ result' = 0
    /\ hb' = "none"
    /\ timed_out' = FALSE
    /\ birth_done' = birth_done
    /\ death_called' = ~is_horse
    /\ death_pool_len' = IF is_horse THEN death_pool_len ELSE pool_len
    /\ UNCHANGED endVars

\* A gateway iteration that goes to dequeue_any without a heartbeat.
iteration_beat_skipped == "none"

\* Line 202: self.heartbeat() is called at the top of a gateway iteration.
iteration_beat == "before"

\* Lines 194-202: a gateway iteration starts: StopRequested when the flag
\* is set (caught at line 153, break), else heartbeat().
GatewayIteration(again) ==
    IF _stop_requested
    THEN Finally("none")
    ELSE /\ pc' = "heartbeat"
         /\ retry' = again
         /\ hb' = iteration_beat
         /\ timed_out' = (pc = "dequeue_any")
         /\ UNCHANGED <<result, wexc>>
         /\ UNCHANGED endVars
         /\ UNCHANGED liveVars

\* Handlers that start armed for the cold path.
first_handler_cold == "request_force_stop"

\* Lines 84-85: _install_signal_handlers arms request_stop.
first_handler == "request_stop"

\* Lines 167-181 and 102-106: work() starts _work, in the caller when burst
\* and in the spawned gevent_worker otherwise; _work installs the signal
\* handlers, clears did_perform_work and calls register_birth.
work ==
    /\ UNCHANGED <<dequeue_timeout, dequeue_interrupted>>
    /\ main = "new"
    /\ main' = "working"
    /\ gevent_worker' = IF burst THEN "None" ELSE "alive"
    /\ handlers' = first_handler
    /\ did_perform_work' = FALSE
    /\ pc' = "register_birth"
    /\ UNCHANGED <<retval, exit_exc, retry, result, wexc, hb, timed_out>>
    /\ UNCHANGED <<_stop_requested, stopper, forcer>>
    /\ UNCHANGED <<conf, jobVars, liveVars, admitted_after_stop>>

\* Lines 106-109: register_birth returns, set_state(STARTED) is called.
register_birth ==
    /\ UNCHANGED <<dequeue_timeout, dequeue_interrupted>>
    /\ Alive /\ pc = "register_birth"
    /\ birth_done' = TRUE
    /\ pc' = "set_state_started"
    /\ UNCHANGED <<retry, result, wexc, hb, timed_out, death_called, death_pool_len>>
    /\ UNCHANGED <<conf, endVars, shutdownVars, jobVars, did_perform_work,
                   admitted_after_stop>>

\* Lines 109-129: set_state returns, the try block and the loop are entered,
\* check_for_suspension is called.
set_state_started ==
    /\ UNCHANGED <<dequeue_timeout, dequeue_interrupted>>
    /\ Alive /\ pc = "set_state_started"
    /\ pc' = "check_for_suspension"
    /\ UNCHANGED <<retry, result, wexc, hb, timed_out>>
    /\ UNCHANGED <<conf, endVars, shutdownVars, jobVars, liveVars,
                   did_perform_work, admitted_after_stop>>

\* Lines 129-140 and 194-202: the top of a loop iteration: break when a stop
\* was requested, else the first gateway call.
check_for_suspension ==
    /\ Alive /\ pc = "check_for_suspension"
    /\ dequeue_timeout' = IF _stop_requested THEN dequeue_timeout ELSE timeout
    /\ UNCHANGED dequeue_interrupted
    /\ GatewayIteration(FALSE)
    /\ UNCHANGED <<conf, shutdownVars, jobVars, did_perform_work,
                   admitted_after_stop>>

\* Lines 202-216: heartbeat returns; a full pool sets the state BUSY, a pool
\* with room goes on to dequeue_any.
heartbeat ==
    /\ UNCHANGED <<dequeue_timeout, dequeue_interrupted>>
    /\ Alive /\ pc = "heartbeat"
    /\ pc' = IF full THEN "set_state_busy" ELSE "dequeue_any"
    /\ UNCHANGED <<retry, result, wexc, hb, timed_out>>
    /\ UNCHANGED <<conf, endVars, shutdownVars, jobVars, liveVars,
                   did_perform_work, admitted_after_stop>>

\* Lines 205-216: set_state(BUSY) returns; while the pool is full sleep.
set_state_busy ==
    /\ UNCHANGED <<dequeue_timeout, dequeue_interrupted>>
    /\ Alive /\ pc = "set_state_busy"
    /\ pc' = IF full THEN "sleep" ELSE "dequeue_any"
    /\ UNCHANGED <<retry, result, wexc, hb, timed_out>>
    /\ UNCHANGED <<conf, endVars, shutdownVars, jobVars, liveVars,
                   did_perform_work, admitted_after_stop>>

\* Lines 210-216: gevent.sleep(0.1) returns: StopRequested when the flag is
\* set, sleep again while the pool is full, else dequeue_any.
sleep ==
    /\ UNCHANGED <<dequeue_timeout, dequeue_interrupted>>
    /\ Alive /\ pc = "sleep"
    /\ IF _stop_requested
       THEN Finally("none")
       ELSE /\ pc' = IF full THEN "sleep" ELSE "dequeue_any"
            /\ UNCHANGED <<retry, result, wexc, hb, timed_out>>
            /\ UNCHANGED endVars
            /\ UNCHANGED liveVars
    /\ UNCHANGED <<conf, shutdownVars, jobVars, did_perform_work,
                   admitted_after_stop>>

\* Line 216: dequeue_any pops the head of the queue.
dequeue_any_job ==
    /\ UNCHANGED <<dequeue_timeout, dequeue_interrupted>>
    /\ Alive /\ pc = "dequeue_any"
    /\ queue # <<>>
    /\ result' = Head(queue)
    /\ queue' = Tail(queue)
    /\ jobs' = [jobs EXCEPT ![Head(queue)] = "dequeued"]
    /\ pc' = "set_state_idle"
    /\ UNCHANGED <<retry, wexc, hb, timed_out>>
    /\ UNCHANGED <<status, cancelled, job_done_calls, job_done_heartbeats, enqueue_dependents_calls>>
    /\ UNCHANGED <<conf, endVars, shutdownVars, liveVars, did_perform_work,
                   admitted_after_stop>>

\* Line 216 with timeout None: dequeue_any does not block and returns None
\* when nothing is queued.
dequeue_any_none ==
    /\ UNCHANGED <<dequeue_timeout, dequeue_interrupted>>
    /\ Alive /\ pc = "dequeue_any"
    /\ queue = <<>>
    /\ dequeue_timeout = -1
    /\ result' = 0
    /\ pc' = "set_state_idle"
    /\ UNCHANGED <<retry, wexc, hb, timed_out>>
    /\ UNCHANGED <<conf, endVars, shutdownVars, jobVars, liveVars,
                   did_perform_work, admitted_after_stop>>

\* A gateway that takes DequeueTimeout for an empty result: it leaves its
\* loop, calls heartbeat() and returns None.
dequeue_any_timeout_returns_none ==
    /\ UNCHANGED <<dequeue_timeout, dequeue_interrupted>>
    /\ Alive /\ pc = "dequeue_any"
    /\ queue = <<>>
    /\ dequeue_timeout # -1
    /\ pc' = "heartbeat_return"
    /\ result' = 0
    /\ hb' = "after"
    /\ timed_out' = TRUE
    /\ UNCHANGED <<retry, wexc>>
    /\ UNCHANGED <<conf, endVars, shutdownVars, jobVars, liveVars,
                   did_perform_work, admitted_after_stop>>

\* Lines 225-226 and 198-202: with a timeout dequeue_any blocks, and raises
\* DequeueTimeout when nothing arrived in time; the gateway loops.
dequeue_any_timeout ==
    /\ UNCHANGED <<dequeue_timeout, dequeue_interrupted>>
    /\ Alive /\ pc = "dequeue_any"
    /\ queue = <<>>
    /\ dequeue_timeout # -1
    /\ GatewayIteration(retry)
    /\ UNCHANGED <<conf, shutdownVars, jobVars, did_perform_work,
                   admitted_after_stop>>

\* Lines 219-228: set_state(IDLE) returns, break, heartbeat() is called.
set_state_idle ==
    /\ UNCHANGED <<dequeue_timeout, dequeue_interrupted>>
    /\ Alive /\ pc = "set_state_idle"
    /\ pc' = "heartbeat_return"
    /\ hb' = "after"
    /\ UNCHANGED timed_out
    /\ UNCHANGED <<retry, result, wexc>>
    /\ UNCHANGED <<conf, endVars, shutdownVars, jobVars, liveVars,
                   did_perform_work, admitted_after_stop>>

\* Lines 183-191: execute_job spawns perform_job in the pool (Pool.spawn
\* waits for a free slot) and links job_done to it.
execute_job(j) ==
    /\ ~full
    /\ jobs' = [jobs EXCEPT ![j] = "running"]
    /\ status' = [status EXCEPT ![j] = "started"]
    /\ admitted_after_stop' = admitted_after_stop + (IF _stop_requested THEN 1 ELSE 0)
    /\ UNCHANGED <<queue, cancelled, job_done_calls, job_done_heartbeats, enqueue_dependents_calls>>

\* Lines 228-229 and 141-157: the gateway returns `result` to _work.
heartbeat_return ==
    /\ UNCHANGED <<dequeue_timeout, dequeue_interrupted>>
    /\ Alive /\ pc = "heartbeat_return"
    /\ IF result = 0
       THEN /\ IF burst /\ ~retry
               THEN /\ pc' = "hub_switch"
                    /\ hb' = "none"
                    /\ timed_out' = FALSE
                    /\ UNCHANGED <<retry, result, wexc>>
                    /\ UNCHANGED endVars
                    /\ UNCHANGED liveVars
               ELSE Finally("none")
            /\ UNCHANGED <<jobVars, admitted_after_stop>>
       ELSE /\ execute_job(result)
            /\ pc' = "check_for_suspension"
            /\ retry' = FALSE
            /\ result' = 0
            /\ hb' = "none"
            /\ timed_out' = FALSE
            /\ UNCHANGED wexc
            /\ UNCHANGED endVars
            /\ UNCHANGED liveVars
    /\ UNCHANGED <<conf, shutdownVars, did_perform_work>>

\* A hub that hands control back at once, whatever is left to run.
HubIdle_at_once == TRUE

\* The hub has nothing left to run: no execution in the pool, no job_done
\* under way, no handler greenlet that can go on.
HubIdle ==
    /\ gevent_pool = {}
    /\ \A j \in Jobs : jobs[j] # "job_done"
    /\ stopper # "joining"
    /\ forcer # "killing"

\* Lines 144-149: get_hub().switch() runs every other greenlet until the
\* hub has nothing left (LoopExit), then the gateway is called once more.
hub_switch ==
    /\ UNCHANGED <<dequeue_timeout, dequeue_interrupted>>
    /\ Alive /\ pc = "hub_switch"
    /\ HubIdle
    /\ GatewayIteration(TRUE)
    /\ UNCHANGED <<conf, shutdownVars, jobVars, did_perform_work,
                   admitted_after_stop>>

\* Lines 164-165 and 177-181: register_death returns; _work returns
\* did_perform_work, or goes on raising what the finally block interrupted.
register_death ==
    /\ UNCHANGED <<dequeue_timeout, dequeue_interrupted>>
    /\ Alive /\ pc = "register_death"
    /\ EndWork(PyBool(did_perform_work), wexc)
    /\ UNCHANGED <<conf, shutdownVars, jobVars, liveVars, did_perform_work,
                   admitted_after_stop>>

\* Where the loop greenlet waits inside the try block of lines 128-152.
InTry == {"check_for_suspension", "heartbeat", "set_state_busy", "sleep",
          "dequeue_any", "set_state_idle", "heartbeat_return", "hub_switch"}

\* Exception exc is raised in the greenlet running _work where it waits:
\* before the try block (lines 102-125) it leaves _work at once; inside the
\* try StopRequested is caught (line 153) and anything else passes, both
\* through the finally block; inside the finally block it leaves _work.
Throw(exc) ==
    IF pc \in InTry
    THEN Finally(IF exc = "StopRequested" THEN "none" ELSE exc)
    ELSE EndWork("None", exc) /\ UNCHANGED liveVars

\* A redis call of _work fails (connection error).
backend_error ==
    /\ UNCHANGED <<dequeue_timeout, dequeue_interrupted>>
    /\ Alive
    /\ pc \in (InTry \ {"sleep", "hub_switch"})
              \cup {"register_birth", "set_state_started", "register_death"}
    /\ Throw("Error")
    /\ UNCHANGED <<conf, shutdownVars, jobVars, did_perform_work,
                   admitted_after_stop>>

\* A producer enqueues the next job on the queue (jobs are enqueued in the
\* order of their ids).
NextFuture == {j \in Jobs : jobs[j] = "future" /\ \A i \in 1..(j - 1) : jobs[i] # "future"}

enqueue(j) ==
    /\ UNCHANGED <<dequeue_timeout, dequeue_interrupted>>
    /\ Alive
    /\ j \in NextFuture
    /\ queue' = Append(queue, j)
    /\ jobs' = [jobs EXCEPT ![j] = "queued"]
    /\ UNCHANGED <<status, cancelled, job_done_calls, job_done_heartbeats, enqueue_dependents_calls>>
    /\ UNCHANGED <<conf, endVars, loopVars, shutdownVars, liveVars,
                   did_perform_work, admitted_after_stop>>

\* A link that is notified of normal ends only.
linked_on_value(j, killed) == ~killed

\* Line 191: child_greenlet.link(job_done): job_done is called when the
\* greenlet is dead, however it died.
linked(j, killed) == TRUE

\* The greenlet of job j is dead with job status st: the pool discards it
\* and its links run: lines 184-186, job_done sets did_perform_work and
\* calls heartbeat.
greenlet_dead(j, st, killed) ==
    /\ status' = [status EXCEPT ![j] = st]
    /\ cancelled' = IF killed THEN cancelled \cup {j} ELSE cancelled
    /\ IF linked(j, killed)
       THEN /\ jobs' = [jobs EXCEPT ![j] = "job_done"]
            /\ job_done_calls' = [job_done_calls EXCEPT ![j] = @ + 1]
            /\ job_done_heartbeats' = [job_done_heartbeats EXCEPT ![j] = @ + 1]
            /\ did_perform_work' = TRUE
       ELSE /\ jobs' = [jobs EXCEPT ![j] = "complete"]
            /\ UNCHANGED <<job_done_calls, job_done_heartbeats, did_perform_work>>
    /\ UNCHANGED <<queue, enqueue_dependents_calls>>

\* perform_job of job j returns: the job finished or failed.
perform_job(j, st) ==
    /\ UNCHANGED <<dequeue_timeout, dequeue_interrupted>>
    /\ Alive
    /\ jobs[j] = "running"
    /\ st \in {"finished", "failed"}
    /\ greenlet_dead(j, st, FALSE)
    /\ UNCHANGED <<conf, endVars, loopVars, shutdownVars, liveVars,
                   admitted_after_stop>>

\* The greenlet of job j dies of the GreenletExit gevent_pool.kill() threw
\* into it, wherever perform_job was: any status may have been stored.
greenlet_killed(j, st) ==
    /\ UNCHANGED <<dequeue_timeout, dequeue_interrupted>>
    /\ Alive
    /\ jobs[j] = "dying"
    /\ st \in JobStatus
    /\ greenlet_dead(j, st, TRUE)
    /\ UNCHANGED <<conf, endVars, loopVars, shutdownVars, liveVars,
                   admitted_after_stop>>

\* A test that lets every status but "failed" through.
is_finished_not_failed(j) == status[j] # "failed"

\* Line 187: job.get_status() == JobStatus.FINISHED
is_finished(j) == status[j] = "finished"

\* Lines 186-188: the heartbeat of job_done returns; a finished job has its
\* dependents enqueued.  dep says whether a job was waiting on this one.
job_done(j, dep) ==
    /\ UNCHANGED <<dequeue_timeout, dequeue_interrupted>>
    /\ Alive
    /\ jobs[j] = "job_done"
    /\ IF is_finished(j)
       THEN /\ enqueue_dependents_calls' = [enqueue_dependents_calls EXCEPT ![j] = @ + 1]
            /\ IF dep /\ NextFuture # {}
               THEN LET d == CHOOSE d \in NextFuture : TRUE
                    IN  /\ queue' = Append(queue, d)
                        /\ jobs' = [jobs EXCEPT ![j] = "complete", ![d] = "queued"]
               ELSE /\ queue' = queue
                    /\ jobs' = [jobs EXCEPT ![j] = "complete"]
       ELSE /\ dep = FALSE
            /\ jobs' = [jobs EXCEPT ![j] = "complete"]
            /\ UNCHANGED <<queue, enqueue_dependents_calls>>
    /\ UNCHANGED <<status, cancelled, job_done_calls, job_done_heartbeats>>
    /\ UNCHANGED <<conf, endVars, loopVars, shutdownVars, liveVars,
                   did_perform_work, admitted_after_stop>>

\* A request_stop that kills nothing after the join.
kill_gevent_worker_skipped == UNCHANGED <<loopVars, endVars, liveVars, dequeue_interrupted>>

\* Lines 80-82: gevent_pool.join() has returned; the greenlet running _work,
\* if work() spawned one, is killed with StopRequested.
kill_gevent_worker ==
    /\ dequeue_interrupted' = (dequeue_interrupted \/ (gevent_worker = "alive" /\ pc = "dequeue_any"))
    /\ IF gevent_worker = "alive"
       THEN Throw("StopRequested")
       ELSE UNCHANGED <<loopVars, endVars, liveVars>>

\* Lines 67-82: a termination signal runs request_stop: the signals are
\* re-armed for request_force_stop, the flag is set, and the handler joins
\* the pool; an empty pool is joined at once.
request_stop ==
    /\ UNCHANGED dequeue_timeout
    /\ Alive
    /\ handlers = "request_stop"
    /\ ~_stop_requested
    /\ handlers' = "request_force_stop"
    /\ _stop_requested' = TRUE
    /\ IF gevent_pool = {}
       THEN stopper' = "done" /\ kill_gevent_worker
       ELSE stopper' = "joining" /\ UNCHANGED <<loopVars, endVars, liveVars, dequeue_interrupted>>
    /\ UNCHANGED <<forcer, conf, jobVars, did_perform_work, admitted_after_stop>>

\* Lines 80-82: the pool is empty, join() returns in request_stop.
join_returns ==
    /\ UNCHANGED dequeue_timeout
    /\ Alive
    /\ stopper = "joining"
    /\ gevent_pool = {}
    /\ stopper' = "done"
    /\ kill_gevent_worker
    /\ UNCHANGED <<_stop_requested, handlers, forcer>>
    /\ UNCHANGED <<conf, jobVars, did_perform_work, admitted_after_stop>>

\* A kill() that reaches no greenlet.
kill_nothing == jobs

\* gevent_pool.kill(): GreenletExit is thrown into every greenlet of the pool.
kill == [j \in Jobs |-> IF jobs[j] = "running" THEN "dying" ELSE jobs[j]]

\* Lines 62-64: a further termination signal runs request_force_stop (and
\* request_stop, which does nothing now): the pool is killed and the
\* handler waits for its greenlets to be dead.  Signals after that one run
\* the same handler on a pool that is being killed already: they change
\* nothing and are stuttering steps.
request_force_stop ==
    /\ UNCHANGED <<dequeue_timeout, dequeue_interrupted>>
    /\ Alive
    /\ handlers = "request_force_stop"
    /\ forcer = "none"
    /\ forcer' = "killing"
    /\ jobs' = kill
    /\ UNCHANGED <<_stop_requested, handlers, stopper>>
    /\ UNCHANGED <<queue, status, cancelled, job_done_calls, job_done_heartbeats, enqueue_dependents_calls>>
    /\ UNCHANGED <<conf, endVars, loopVars, liveVars, did_perform_work,
                   admitted_after_stop>>

\* kill() loops while the pool holds greenlets: one spawned meanwhile is
\* killed as well.
kill_again ==
    /\ UNCHANGED <<dequeue_timeout, dequeue_interrupted>>
    /\ Alive
    /\ forcer = "killing"
    /\ \E j \in Jobs : jobs[j] = "running"
    /\ jobs' = kill
    /\ UNCHANGED <<queue, status, cancelled, job_done_calls, job_done_heartbeats, enqueue_dependents_calls>>
    /\ UNCHANGED <<conf, endVars, loopVars, shutdownVars, liveVars,
                   did_perform_work, admitted_after_stop>>

\* Line 65: the pool is dead, request_force_stop raises SystemExit, which
\* gevent raises in the main greenlet: the caller of work(), and in burst
\* mode that is the greenlet running _work.
raise_SystemExit ==
    /\ UNCHANGED <<dequeue_timeout, dequeue_interrupted>>
    /\ Alive
    /\ forcer = "killing"
    /\ gevent_pool = {}
    /\ forcer' = "done"
    /\ IF burst
       THEN Throw("SystemExit")
       ELSE /\ main' = "raised"
            /\ exit_exc' = "SystemExit"
            /\ UNCHANGED <<retval, gevent_worker, loopVars, liveVars>>
    /\ UNCHANGED <<_stop_requested, handlers, stopper>>
    /\ UNCHANGED <<conf, jobVars, did_perform_work, admitted_after_stop>>

LoopStep ==
    \/ work
    \/ register_birth
    \/ set_state_started
    \/ check_for_suspension
    \/ heartbeat
    \/ set_state_busy
    \/ sleep
    \/ dequeue_any_job
    \/ dequeue_any_none
    \/ dequeue_any_timeout
    \/ set_state_idle
    \/ heartbeat_return
    \/ hub_switch
    \/ register_death

JobStep ==
    \/ \E j \in Jobs, st \in JobStatus : perform_job(j, st)
    \/ \E j \in Jobs, st \in JobStatus : greenlet_killed(j, st)
    \/ \E j \in Jobs, dep \in BOOLEAN : job_done(j, dep)

HandlerStep ==
    \/ join_returns
    \/ kill_again
    \/ raise_SystemExit

Next ==
    \/ LoopStep
    \/ JobStep
    \/ HandlerStep
    \/ \E j \in Jobs : enqueue(j)
    \/ request_stop
    \/ request_force_stop
    \/ backend_error

Spec == Init /\ [][Next]_vars

\* The hub runs every greenlet that can go on, redis answers, and a
\* blocking dequeue_any ends (job or DequeueTimeout).
FairSpec ==
    /\ Spec
    /\ WF_vars(LoopStep)
    /\ WF_vars(JobStep)
    /\ WF_vars(HandlerStep)

\* The dispatch loop alone, a worker of any TTL of TTLRange on queues that
\* stay empty, with no signal and no backend failure: each iteration
\* computes the timeout of line 138 and hands it to the gateway.
TimeoutNext ==
    \/ work
    \/ register_birth
    \/ set_state_started
    \/ check_for_suspension
    \/ heartbeat
    \/ dequeue_any_none
    \/ dequeue_any_timeout
    \/ set_state_idle
    \/ heartbeat_return
    \/ hub_switch
    \/ register_death

TimeoutInit == InitWith(TTLRange)

TimeoutSpec == TimeoutInit /\ [][TimeoutNext]_vars

\* An execution ends by itself, or the job_done of an ended one goes on.
CompletionStep ==
    \/ \E j \in Jobs, st \in JobStatus : perform_job(j, st)
    \/ \E j \in Jobs, dep \in BOOLEAN : job_done(j, dep)

\* The worker with producers enqueueing, no termination signal and a
\* backend that answers.
NoSignalNext ==
    \/ LoopStep
    \/ CompletionStep
    \/ \E j \in Jobs : enqueue(j)

\* Every execution ends, every job_done goes on, the loop greenlet is run
\* whenever it can go on.
NoSignalSpec ==
    /\ Init /\ [][NoSignalNext]_vars
    /\ WF_vars(LoopStep)
    /\ WF_vars(CompletionStep)

\* The loop greenlet goes on from any wait but dequeue_any.
LoopProgress ==
    \/ work
    \/ register_birth
    \/ set_state_started
    \/ check_for_suspension
    \/ heartbeat
    \/ set_state_busy
    \/ sleep
    \/ set_state_idle
    \/ heartbeat_return
    \/ hub_switch
    \/ register_death

\* The hub runs every greenlet that can go on and redis answers, but a
\* blocking dequeue_any need not end: no job may arrive, and its timeout
\* may be as long as one likes.
BlockingDequeueSpec ==
    /\ Spec
    /\ WF_vars(LoopProgress)
    /\ WF_vars(JobStep)
    /\ WF_vars(HandlerStep)

TypeOK ==
    /\ burst \in BOOLEAN
    /\ pool_size \in 1..MaxPool
    /\ default_worker_ttl \in TTLs \cup TTLRange
    /\ main \in {"new", "working", "returned", "raised"}
    /\ retval \in {"unset", "None", "True", "False"}
    /\ exit_exc \in {"none", "StopRequested", "Error", "SystemExit"}
    /\ gevent_worker \in {"None", "alive", "dead"}
    /\ pc \in InTry \cup {"new", "register_birth", "set_state_started",
                          "register_death", "done"}
    /\ retry \in BOOLEAN
    /\ result \in Jobs \cup {0}
    /\ wexc \in {"none", "StopRequested", "Error", "SystemExit"}
    /\ _stop_requested \in BOOLEAN
    /\ did_perform_work \in BOOLEAN
    /\ handlers \in {"none", "request_stop", "request_force_stop"}
    /\ stopper \in {"none", "joining", "done"}
    /\ forcer \in {"none", "killing", "done"}
    /\ jobs \in [Jobs -> {"future", "queued", "dequeued", "running", "dying",
                          "job_done", "complete"}]
    /\ status \in [Jobs -> JobStatus \cup {"queued"}]
    /\ cancelled \subseteq Jobs
    /\ death_pool_len \in -1..MaxPool
    /\ admitted_after_stop \in 0..MaxJobs
    /\ hb \in {"none", "before", "after"}
    /\ timed_out \in BOOLEAN
    /\ job_done_heartbeats \in [Jobs -> 0..1]
    /\ dequeue_timeout \in {-1} \cup 1..MaxTTL
    /\ dequeue_interrupted \in BOOLEAN

\* The shutdown state of section 4.4, read off the worker: Running until
\* request_stop has set the flag, ColdRequested once request_force_stop ran.
ShutdownState ==
    IF forcer # "none" THEN "ColdRequested"
    ELSE IF _stop_requested THEN "WarmRequested"
    ELSE "Running"

----------------------------------------------------------------------------
\* C1: for every pool capacity and every interleaving, the number of
\* executions in gevent_pool never exceeds pool_size.
C1_PoolNeverExceedsCapacity == pool_len <= pool_size

\* The pool is at capacity, a job is queued and the loop backs off.
C1_Witness == pool_len = pool_size /\ queue # <<>> /\ pc = "sleep"

\* C2: after one warm-shutdown signal and no further signal, register_death
\* is called only when the pool is empty (every admitted execution has
\* completed), whatever the loop was doing when the signal arrived.
C2_DrainBeforeDeregistration ==
    (_stop_requested /\ forcer = "none" /\ wexc = "none" /\ death_called)
        => death_pool_len = 0

\* C3: under a warm shutdown no dequeued job is lost: a job dequeue_any has
\* popped is held by the loop on its way to execute_job, or was admitted.
C3_NoDequeuedJobLost ==
    (forcer = "none" /\ wexc = "none")
        => \A j \in Jobs : jobs[j] = "dequeued" => result = j

\* C4: a second termination signal after a warm request kills every
\* execution in flight: each gets GreenletExit at that signal and ends
\* cancelled, SystemExit leaves work() only with the pool empty, and the
\* process does exit, while the warm drain may still be waiting in join().
C4_ColdShutdownKillsPool ==
    /\ [][(forcer = "none" /\ forcer' # "none")
            => (_stop_requested /\ \A j \in gevent_pool : jobs'[j] = "dying")]_vars
    /\ [][\A j \in Jobs : (jobs[j] = "dying" /\ jobs'[j] # "dying")
            => j \in cancelled']_vars
    /\ [](exit_exc = "SystemExit" => gevent_pool = {})
    /\ (forcer = "killing" ~> ~Alive)

\* SystemExit ended work() after an execution was cancelled, while
\* request_stop was still waiting in join().
C4_Witness ==
    /\ exit_exc = "SystemExit"
    /\ cancelled # {}
    /\ stopper = "joining"

\* C5: job_done calls enqueue_dependents exactly once for a job whose
\* status reads FINISHED and never for any other status.
C5_EnqueueDependentsIffFinished ==
    \A j \in Jobs :
        /\ enqueue_dependents_calls[j] <= 1
        /\ enqueue_dependents_calls[j] = 1
              => (status[j] = "finished" /\ jobs[j] = "complete")
        /\ jobs[j] = "complete"
              => enqueue_dependents_calls[j] = (IF status[j] = "finished" THEN 1 ELSE 0)

\* One job ran job_done as finished, another as a cancelled, unfinished one.
C5_Witness ==
    \E j, k \in Jobs :
        /\ jobs[j] = "complete" /\ status[j] = "finished"
        /\ enqueue_dependents_calls[j] = 1
        /\ jobs[k] = "complete" /\ status[k] = "started" /\ k \in cancelled
        /\ enqueue_dependents_calls[k] = 0

\* C6: in burst mode, with nothing ever enqueued (and no cold shutdown, no
\* backend failure), work() ends and returns False.
C6_BurstEmptyQueueReturnsFalse ==
    <>(\/ ~burst
       \/ \E j \in Jobs : jobs[j] # "future"
       \/ forcer # "none"
       \/ wexc = "Error"
       \/ (main = "returned" /\ retval = "False"))

\* A burst run that found the queue empty twice and returned False.
C6_Witness ==
    /\ burst /\ main = "returned" /\ retval = "False"
    /\ \A j \in Jobs : jobs[j] = "future"
    /\ ~_stop_requested /\ wexc = "none"

\* C7: the shutdown state only moves Running -> WarmRequested ->
\* ColdRequested: the first signal never takes the cold path, the cold path
\* follows a warm request, and _stop_requested is never cleared.
C7_ShutdownMonotonic ==
    [][/\ _stop_requested => _stop_requested'
       /\ \/ ShutdownState' = ShutdownState
          \/ ShutdownState = "Running" /\ ShutdownState' = "WarmRequested"
          \/ ShutdownState = "WarmRequested" /\ ShutdownState' = "ColdRequested"]_vars

\* The cold path has been taken, after a warm request.
C7_Witness == ShutdownState = "ColdRequested" /\ forcer = "done" /\ _stop_requested

\* C8: once _stop_requested is set at most one job is admitted by
\* execute_job, and no dequeue_any call is started.
C8_NoDequeueAfterStop ==
    /\ [](admitted_after_stop <= 1)
    /\ [][~(_stop_requested /\ pc # "dequeue_any" /\ pc' = "dequeue_any")]_vars

\* C9: job_done is invoked exactly once for every execution that has ended,
\* normally or killed, and for no other job.
C9_JobDoneExactlyOnce ==
    \A j \in Jobs :
        /\ job_done_calls[j] <= 1
        /\ job_done_calls[j] = 1 <=> jobs[j] \in {"job_done", "complete"}

\* A cold shutdown ended work(): the killed execution and the one that
\* failed by itself both had job_done invoked.
C9_Witness ==
    /\ exit_exc = "SystemExit"
    /\ \E j, k \in Jobs :
        /\ j \in cancelled /\ job_done_calls[j] = 1
        /\ k \notin cancelled /\ status[k] = "failed" /\ job_done_calls[k] = 1

\* C10: once register_birth has run, every way out of _work other than a
\* cold shutdown calls register_death, a StopRequested delivered before the
\* try block included.  (A backend error is left to the loop body's route.)
C10_DeathOnEveryExit ==
    (pc = "done" /\ birth_done /\ ~is_horse /\ forcer = "none" /\ wexc # "Error")
        => death_called

\* C11: StopRequested, raised by the gateway or thrown into the greenlet
\* running _work by gevent_worker.kill, never leaves _work: _work never ends
\* with it, and work() never returns None on a warm shutdown.
C11_StopRequestedNeverEscapes ==
    /\ wexc # "StopRequested"
    /\ (main = "returned" /\ forcer = "none" /\ wexc # "Error") => retval # "None"

\* Jobs execute_job has admitted during this invocation of work().
Admitted == {j \in Jobs : jobs[j] \in {"running", "dying", "job_done", "complete"}}

\* C12: when _work returns normally, work() returns True exactly when
\* execute_job admitted at least one job, even when the loop was left
\* before the completion hook of that job had run.
C12_ReturnsTrueIffAdmitted ==
    (main = "returned" /\ wexc = "none" /\ forcer = "none")
        => (retval = "True" <=> Admitted # {})

\* C13: the heartbeat is never skipped: every dequeue_any call is made
\* after the heartbeat() of its gateway iteration, the gateway hands a
\* result of dequeue_any (job or None) to the loop only from the heartbeat()
\* it calls after dequeue_any returned, and every execution that ended has
\* had exactly one heartbeat() called by job_done.
C13_HeartbeatNeverSkipped ==
    /\ [](pc = "dequeue_any" => hb = "before")
    /\ [](pc = "heartbeat_return" => hb = "after")
    /\ [][(Admitted' # Admitted \/ (pc # "hub_switch" /\ pc' = "hub_switch"))
            => (pc = "heartbeat_return" /\ hb = "after")]_vars
    /\ [](\A j \in Jobs :
            job_done_heartbeats[j] = (IF jobs[j] \in {"job_done", "complete"} THEN 1 ELSE 0))

\* The gateway is about to hand a dequeued job to the loop, after both of
\* its heartbeats, and an earlier execution has ended and run job_done.
C13_Witness ==
    /\ pc = "heartbeat_return" /\ hb = "after" /\ result # 0
    /\ \E j \in Jobs : jobs[j] = "complete" /\ job_done_heartbeats[j] = 1

\* C14: dequeue_any is never called, nor waited in, with the pool at
\* capacity, and when the gateway hands a job to the loop the pool has a
\* free slot: the spawn of execute_job does not block.
C14_NoDequeueWhenFull ==
    /\ pc = "dequeue_any" => pool_len < pool_size
    /\ (pc \in {"set_state_idle", "heartbeat_return"} /\ result # 0)
          => pool_len < pool_size

\* A dequeued job is about to be admitted into the last free slot of a
\* pool that holds an execution already.
C14_Witness ==
    /\ pc = "heartbeat_return" /\ result # 0
    /\ pool_len >= 1 /\ pool_len = pool_size - 1

\* The loop is inside a gateway call: line 138 has assigned `timeout`.
InGateway == pc \in InTry \ {"check_for_suspension"}

\* C15 as stated: the timeout handed to the gateway is None in continuous
\* mode and max(1, TTL - 60) in burst mode.
C15_TimeoutNullInContinuousMode ==
    InGateway =>
        dequeue_timeout = (IF ~burst THEN -1 ELSE Max(1, default_worker_ttl - 60))

\* C15, amended: the timeout handed to the gateway is None in burst mode
\* (dequeue_any then returns None at once on empty queues) and the bounded
\* value max(1, TTL - 60) in continuous mode (dequeue_any then never
\* returns None: it ends with a job or with DequeueTimeout).
C15_TimeoutNullInBurstMode ==
    /\ InGateway =>
          dequeue_timeout = (IF burst THEN -1 ELSE Max(1, default_worker_ttl - 60))
    /\ (pc = "set_state_idle" /\ result = 0) => burst

\* A burst worker handed None to dequeue_any, which returned None at once
\* on the empty queue, whatever the TTL.
C15_Witness ==
    /\ burst /\ pc = "set_state_idle" /\ result = 0
    /\ dequeue_timeout = -1 /\ default_worker_ttl = MaxTTL

\* C16: for every worker TTL, 0 and the values around 60 included, a
\* bounded timeout handed to the gateway is at least 1, is 1 up to TTL 60
\* and is TTL - 60 from TTL 61 on.
C16_BoundedTimeoutFlooredAtOne ==
    (InGateway /\ dequeue_timeout # -1) =>
        /\ dequeue_timeout >= 1
        /\ default_worker_ttl <= 60 => dequeue_timeout = 1
        /\ default_worker_ttl >= 61 => dequeue_timeout = default_worker_ttl - 60

\* A continuous worker of TTL 0 waits in dequeue_any with timeout 1.
C16_Witness ==
    /\ ~burst /\ pc = "dequeue_any"
    /\ default_worker_ttl = 0 /\ dequeue_timeout = 1

\* C17 as stated: when dequeue_any signals DequeueTimeout the gateway
\* returns None to the dispatch loop.
C17_TimeoutReturnsNone ==
    [][dequeue_any_timeout
        => (pc' \in {"set_state_idle", "heartbeat_return"} /\ result' = 0)]_vars

\* C17, amended: when dequeue_any signals DequeueTimeout the gateway
\* propagates no error and does not return: it starts its next iteration,
\* which raises StopRequested (a clean break of the loop) when a stop was
\* requested and else calls heartbeat() and dequeue_any again; a gateway
\* call that caught DequeueTimeout never returns None.
C17_TimeoutRetriesGateway ==
    /\ [][dequeue_any_timeout
            => /\ wexc' = "none" /\ main' = main
               /\ IF _stop_requested
                  THEN pc' = "register_death"
                  ELSE pc' = "heartbeat" /\ hb' = "before" /\ timed_out']_vars
    /\ []((pc = "heartbeat_return" /\ timed_out) => result # 0)

\* A gateway call caught DequeueTimeout, went on, and now returns a job
\* that was enqueued later.
C17_Witness == pc = "heartbeat_return" /\ timed_out /\ result # 0

\* C18: in burst mode, when the first gateway call of an iteration returns
\* None the loop yields to the hub once and calls the gateway once more;
\* when that retry returns None the loop is left without a further yield,
\* when it returns a job the job is admitted and the loop goes on.  The
\* yield lasts until every execution has ended and every job_done has
\* run, so the dependents they enqueued are queued before the retry's
\* dequeue_any, which returns None only on an empty queue.
C18_BurstRetryOnce ==
    /\ [][(heartbeat_return /\ burst /\ result = 0 /\ ~retry)
            => pc' = "hub_switch"]_vars
    /\ [][hub_switch
            => IF _stop_requested
               THEN pc' = "register_death" /\ wexc' = "none"
               ELSE pc' = "heartbeat" /\ retry']_vars
    /\ [][(heartbeat_return /\ retry /\ result = 0)
            => (pc' = "register_death" /\ wexc' = "none")]_vars
    /\ [][(heartbeat_return /\ retry /\ result # 0)
            => (result \in Admitted' /\ pc' = "check_for_suspension" /\ ~retry')]_vars
    /\ [](retry => (burst /\ gevent_pool = {} /\ \A j \in Jobs : jobs[j] # "job_done"))
    /\ [][(dequeue_any_none /\ retry) => queue = <<>>]_vars

\* The retry of a burst worker returns a job, after an execution finished
\* and job_done called enqueue_dependents for it.
C18_Witness ==
    /\ burst /\ retry /\ pc = "heartbeat_return" /\ result # 0
    /\ \E j \in Jobs : jobs[j] = "complete" /\ enqueue_dependents_calls[j] = 1

\* The loop has been left: the worker admits nothing any more.
LoopLeft == pc \in {"register_death", "done"}

C20_RequestInterruptsDequeue ==
    [][(request_stop /\ ~burst /\ pc = "dequeue_any")
        => (pc' = "register_death" /\ dequeue_interrupted')]_vars

\* C20, amended: in continuous mode a warm-shutdown request interrupts a
\* pending dequeue_any with StopRequested, which breaks the loop, at once
\* when no execution is in flight, and otherwise when gevent_pool.join()
\* returns and the dequeue_any is still pending; so a loop that waits in
\* dequeue_any after the request leaves (or a cold shutdown ends the
\* process) even if no job arrives and the timeout never fires.
C20_StopInterruptsDequeue ==
    /\ [][(request_stop /\ ~burst /\ pc = "dequeue_any" /\ gevent_pool = {})
            => (pc' = "register_death" /\ wexc' = "none" /\ dequeue_interrupted')]_vars
    /\ [][(join_returns /\ ~burst /\ pc = "dequeue_any")
            => (pc' = "register_death" /\ wexc' = "none" /\ dequeue_interrupted')]_vars
    /\ (~burst /\ _stop_requested /\ pc = "dequeue_any") ~> (LoopLeft \/ ~Alive)

\* A continuous worker with nothing queued and nothing in flight was
\* stopped while it waited in dequeue_any, and work() returned False.
C20_Witness ==
    /\ ~burst /\ dequeue_interrupted /\ main = "returned" /\ retval = "False"
    /\ \A j \in Jobs : jobs[j] = "future"
    /\ ~timed_out /\ forcer = "none"

====
